---- MODULE Spec2Model ----
(***************************************************************************)
(* SurfaceMediaSource (media/libstagefright/SurfaceMediaSource.cpp): the   *)
(* slot table, the FIFO of queued slots, the blocking read() of the        *)
(* encoder and the return path signalBufferReturned().                     *)
(*                                                                         *)
(* Every public method takes mMutex for its whole body, so one method is   *)
(* one atomic action; read() is split at mFrameAvailableCondition.wait(),  *)
(* the only place where the mutex is released inside a method.             *)
(*                                                                         *)
(* The producer's dequeueBuffer()/queueBuffer() are not in the translation *)
(* unit; they are modelled from the design text (slot state machine).      *)
(***************************************************************************)
EXTENDS Integers, Sequences, FiniteSets, TLC

\* ------------------------------------------------------------------ bounds
NUM_BUFFER_SLOTS == 3          \* size of mSlots (scaled down)
MaxFrames == 2                 \* queueBuffer calls explored
MaxArg == 1                    \* arguments range over -1 .. NUM_BUFFER_SLOTS + MaxArg

\* --------------------------------------------------------------- constants
MIN_ASYNC_BUFFER_SLOTS == 3
MIN_SYNC_BUFFER_SLOTS == 2
MAX_FRAME_RATE == 60
INVALID_BUFFER_SLOT == -1
NO_CONNECTED_API == 0
NATIVE_WINDOW_API_EGL == 1
NATIVE_WINDOW_API_CPU == 2
NATIVE_WINDOW_API_MEDIA == 3
NATIVE_WINDOW_API_CAMERA == 4

FREE == "FREE"
DEQUEUED == "DEQUEUED"
QUEUED == "QUEUED"

\* status_t values, by name
OK == "OK"
BAD_VALUE == "BAD_VALUE"
EINVAL == "EINVAL"
INVALID_OPERATION == "INVALID_OPERATION"
NO_INIT == "NO_INIT"
ERROR_END_OF_STREAM == "ERROR_END_OF_STREAM"
FATAL == "FATAL"               \* CHECK_EQ failure: the process aborts
NONE == "NONE"                 \* no call has returned yet / call returns void

SlotIds == 0 .. (NUM_BUFFER_SLOTS - 1)
Handles == 1 .. (NUM_BUFFER_SLOTS + 1)
NoBuffer == 0
CountArgs == (-1) .. (NUM_BUFFER_SLOTS + MaxArg)
ApiArgs == NO_CONNECTED_API .. NATIVE_WINDOW_API_CAMERA
ValidApis == {NATIVE_WINDOW_API_EGL, NATIVE_WINDOW_API_CPU,
              NATIVE_WINDOW_API_MEDIA, NATIVE_WINDOW_API_CAMERA}

VARIABLES
    mSlots,              \* [SlotIds -> BufferSlot]
    mQueue,              \* Fifo of slot indices
    mBufferCount, mServerBufferCount, mClientBufferCount,
    mSynchronousMode, mConnectedApi, mStopped,
    mCurrentSlot, mCurrentBuf, mCurrentTimestamp, mNumFramesEncoded,
    mFrameRate,
    mDefaultWidth, mDefaultHeight,   \* what connect() reports to the producer
    mFrameAvailableListener,         \* a listener is registered
    readPc,              \* the encoder thread inside read(): idle / waiting / woken
    ret,                 \* the last call that returned: [op, arg, status, out]
    signalled,           \* conditions signalled, and listener calls made, by
                         \* the last step
    aborted,             \* CHECK failed
    pending,             \* history: the frames queued and not yet delivered or
                         \* dropped, oldest first (what a FIFO would hold)
    numQueued,           \* history: queueBuffer calls so far
    delivered,           \* history: the slots whose latest frame read() handed out
    outstanding          \* history: per handle, the records read() handed out
                         \* with it that the encoder has not released yet

slotVars == <<mSlots, mQueue>>
countVars == <<mBufferCount, mServerBufferCount, mClientBufferCount>>
sessVars == <<mSynchronousMode, mConnectedApi, mStopped>>
curVars == <<mCurrentSlot, mCurrentBuf, mCurrentTimestamp, mNumFramesEncoded>>
cfgVars == <<mFrameRate, mDefaultWidth, mDefaultHeight, mFrameAvailableListener>>
histVars == <<pending, numQueued, delivered, outstanding>>
vars == <<mSlots, mQueue, mBufferCount, mServerBufferCount, mClientBufferCount,
          mSynchronousMode, mConnectedApi, mStopped,
          mCurrentSlot, mCurrentBuf, mCurrentTimestamp, mNumFramesEncoded,
          mFrameRate, mDefaultWidth, mDefaultHeight, mFrameAvailableListener,
          readPc, ret, signalled,
          aborted,
          pending, numQueued, delivered, outstanding>>

Ret(op, arg, status, out) == [op |-> op, arg |-> arg, status |-> status, out |-> out]

BufferSlot(buf, st, ts, req) ==
    [mGraphicBuffer |-> buf, mBufferState |-> st, mTimestamp |-> ts,
     mRequestBufferCalled |-> req]

\* Values a member the constructor never assigns may hold.
UninitCounts == {0, NUM_BUFFER_SLOTS}
UninitApis == {NO_CONNECTED_API, NATIVE_WINDOW_API_CPU}
UninitSizes == {0, 2}

\* The constructor's initializer list covers mCurrentSlot, mCurrentTimestamp,
\* mFrameRate, mNumFramesEncoded; mStopped, mSynchronousMode, mConnectedApi and
\* the three buffer counts are read by the methods without ever being assigned,
\* and so are mDefaultWidth and mDefaultHeight.
ConstructedWith(counts, serverCounts, clientCounts) ==
    /\ mSlots = [i \in SlotIds |-> BufferSlot(NoBuffer, FREE, 0, FALSE)]
    /\ mQueue = <<>>
    /\ mBufferCount \in counts
    /\ mServerBufferCount \in serverCounts
    /\ mClientBufferCount \in clientCounts
    /\ mSynchronousMode \in BOOLEAN
    /\ mConnectedApi \in UninitApis
    /\ mStopped \in BOOLEAN
    /\ mCurrentSlot = INVALID_BUFFER_SLOT
    /\ mCurrentBuf = NoBuffer
    /\ mCurrentTimestamp = 0
    /\ mNumFramesEncoded = 0
    /\ mFrameRate = 30
    /\ mDefaultWidth \in UninitSizes
    /\ mDefaultHeight \in UninitSizes
    /\ mFrameAvailableListener = FALSE     \* sp<>: null until set
    /\ readPc = "idle"
    /\ ret = Ret(NONE, 0, NONE, 0)
    /\ signalled = {}
    /\ aborted = FALSE
    /\ pending = <<>>
    /\ numQueued = 0
    /\ delivered = {}
    /\ outstanding = [h \in Handles |-> 0]

Constructed(serverCounts) ==
    ConstructedWith(UninitCounts, serverCounts, UninitCounts)

Init == Constructed(UninitCounts)

\* ---------------------------------------------------------------- helpers

\* Fault: the signal is lost.
WakeNobody(pc) == pc

\* mFrameAvailableCondition.signal()/broadcast(): the encoder, if it waits in
\* read(), is made runnable and re-checks its loop condition.
WakeReader(pc) == IF pc = "waiting" THEN "woken" ELSE pc

\* Fault: the buffers are dropped, the states are kept.
freeAllBuffersKeepState(slots) ==
    [i \in SlotIds |-> [slots[i] EXCEPT !.mGraphicBuffer = NoBuffer]]

\* Fault: the states are reset, the buffers are kept.
freeAllBuffersKeepBuffers(slots) ==
    [i \in SlotIds |-> [slots[i] EXCEPT !.mBufferState = FREE]]

\* freeAllBuffersLocked()
freeAllBuffersLocked(slots) ==
    [i \in SlotIds |-> [slots[i] EXCEPT !.mGraphicBuffer = NoBuffer,
                                        !.mBufferState = FREE]]

\* Faults seeded in the range checks (each replaces the check below it).
ExceedsSlotsOffByOne(bufferCount) == bufferCount > NUM_BUFFER_SLOTS + 1
ExceedsSlotsInclusive(bufferCount) == bufferCount >= NUM_BUFFER_SLOTS
BelowClientMinimumDropped(bufferCount) == bufferCount < 1

\* setBufferCount: "bufferCount is larger than the number of buffer slots"
ExceedsSlots(bufferCount) == bufferCount > NUM_BUFFER_SLOTS

\* setBufferCount: a client count below MIN_ASYNC_BUFFER_SLOTS is refused
BelowClientMinimum(bufferCount) == bufferCount < MIN_ASYNC_BUFFER_SLOTS

\* Fault: the loop looks at slot 0 only.
ClientOwnsFirstBufferOnly(slots, count) ==
    0 < count /\ slots[0].mBufferState = DEQUEUED

\* setBufferCount's loop "Error out if the user has dequeued buffers"
ClientOwnsSomeBuffers(slots, count) ==
    \E i \in SlotIds : i < count /\ slots[i].mBufferState = DEQUEUED

\* ---------------------------------------------------------------- actions

\* A call that fails before touching anything: only the result is new.
Fail(op, arg, status) ==
    /\ ret' = Ret(op, arg, status, 0)
    /\ signalled' = {}
    /\ UNCHANGED <<slotVars, countVars, sessVars, curVars, cfgVars, readPc,
                   aborted, histVars>>

\* Fault: with no client count, any count in range is applied at once.
setBufferCountServerAtOnce(bufferCount, count, server, client) ==
    IF bufferCount > NUM_BUFFER_SLOTS \/ (client = 0 /\ bufferCount < 2) THEN
        [status |-> BAD_VALUE, count |-> count, server |-> server, sig |-> {}]
    ELSE IF client = 0 THEN
        [status |-> OK, count |-> bufferCount, server |-> bufferCount,
         sig |-> {"dequeue"}]
    ELSE
        [status |-> OK, count |-> count, server |-> bufferCount, sig |-> {}]

\* Fault: the test against NUM_BUFFER_SLOTS is missing.
setBufferCountServerUnbounded(bufferCount, count, server, client) ==
    IF bufferCount = count THEN
        [status |-> OK, count |-> count, server |-> server, sig |-> {}]
    ELSE IF client = 0 /\ bufferCount >= count THEN
        [status |-> OK, count |-> bufferCount, server |-> bufferCount,
         sig |-> {"dequeue"}]
    ELSE IF bufferCount < 2 THEN
        [status |-> BAD_VALUE, count |-> count, server |-> server, sig |-> {}]
    ELSE
        [status |-> OK, count |-> count, server |-> bufferCount, sig |-> {}]

\* Fault: a client count in force does not hold the server back.
setBufferCountServerOverClient(bufferCount, count, server, client) ==
    IF bufferCount > NUM_BUFFER_SLOTS THEN
        [status |-> BAD_VALUE, count |-> count, server |-> server, sig |-> {}]
    ELSE IF bufferCount = count THEN
        [status |-> OK, count |-> count, server |-> server, sig |-> {}]
    ELSE IF bufferCount >= count THEN
        [status |-> OK, count |-> bufferCount, server |-> bufferCount,
         sig |-> {"dequeue"}]
    ELSE IF bufferCount < 2 THEN
        [status |-> BAD_VALUE, count |-> count, server |-> server, sig |-> {}]
    ELSE
        [status |-> OK, count |-> count, server |-> bufferCount, sig |-> {}]

\* status_t setBufferCountServerLocked(int bufferCount), on the given values of
\* mBufferCount, mServerBufferCount, mClientBufferCount: the status, the new
\* mBufferCount and mServerBufferCount, and the condition signalled.
setBufferCountServerLocked(bufferCount, count, server, client) ==
    IF bufferCount > NUM_BUFFER_SLOTS THEN
        [status |-> BAD_VALUE, count |-> count, server |-> server, sig |-> {}]
    ELSE IF bufferCount = count THEN
        [status |-> OK, count |-> count, server |-> server, sig |-> {}]
    ELSE IF client = 0 /\ bufferCount >= count THEN
        [status |-> OK, count |-> bufferCount, server |-> bufferCount,
         sig |-> {"dequeue"}]
    ELSE IF bufferCount < 2 THEN
        [status |-> BAD_VALUE, count |-> count, server |-> server, sig |-> {}]
    ELSE
        [status |-> OK, count |-> count, server |-> bufferCount, sig |-> {}]

SetBufferCountServer(bufferCount) ==
    /\ ~aborted
    /\ LET r == setBufferCountServerLocked(bufferCount, mBufferCount,
                                           mServerBufferCount, mClientBufferCount)
       IN /\ mBufferCount' = r.count
          /\ mServerBufferCount' = r.server
          /\ signalled' = r.sig
          /\ ret' = Ret("setBufferCountServer", bufferCount, r.status, 0)
    /\ UNCHANGED <<slotVars, mClientBufferCount, sessVars, curVars, cfgVars,
                   readPc, aborted, histVars>>

\* setBufferCount, bufferCount == 0: drop the client's count, fall back on the
\* server's (at least the minimum of the mode).
SetBufferCountZero ==
    LET minBufferSlots == IF mSynchronousMode THEN MIN_SYNC_BUFFER_SLOTS
                                              ELSE MIN_ASYNC_BUFFER_SLOTS
        bufferCount == IF mServerBufferCount >= minBufferSlots
                       THEN mServerBufferCount ELSE minBufferSlots
        r == setBufferCountServerLocked(bufferCount, mBufferCount,
                                        mServerBufferCount, 0)
    IN /\ mClientBufferCount' = 0
       /\ mBufferCount' = r.count
       /\ mServerBufferCount' = r.server
       /\ signalled' = r.sig
       /\ ret' = Ret("setBufferCount", 0, r.status, 0)
       /\ UNCHANGED <<slotVars, sessVars, curVars, cfgVars, readPc, aborted,
                      histVars>>

\* setBufferCount, bufferCount >= MIN_ASYNC_BUFFER_SLOTS: the resize.
SetBufferCountClient(bufferCount) ==
    /\ mBufferCount' = bufferCount
    /\ mClientBufferCount' = bufferCount
    /\ mCurrentSlot' = INVALID_BUFFER_SLOT
    /\ mQueue' = <<>>
    /\ signalled' = {"dequeue"}
    /\ mSlots' = freeAllBuffersLocked(mSlots)
    /\ ret' = Ret("setBufferCount", bufferCount, OK, 0)
    /\ pending' = <<>>
    /\ UNCHANGED <<mServerBufferCount, sessVars, mCurrentBuf, mCurrentTimestamp,
                   mNumFramesEncoded, cfgVars, readPc, aborted, numQueued,
                   delivered, outstanding>>

SetBufferCount(bufferCount) ==
    /\ ~aborted
    /\ IF ExceedsSlots(bufferCount) THEN
           Fail("setBufferCount", bufferCount, BAD_VALUE)
       ELSE IF ClientOwnsSomeBuffers(mSlots, mBufferCount) THEN
           Fail("setBufferCount", bufferCount, INVALID_OPERATION)
       ELSE IF bufferCount = 0 THEN
           SetBufferCountZero
       ELSE IF BelowClientMinimum(bufferCount) THEN
           Fail("setBufferCount", bufferCount, BAD_VALUE)
       ELSE
           SetBufferCountClient(bufferCount)

\* Fault: the index is tested against the size of the table.
BadSlotOfTable(slot, count) == slot < 0 \/ NUM_BUFFER_SLOTS <= slot

\* requestBuffer: if (slot < 0 || mBufferCount <= slot)
BadSlot(slot, count) == slot < 0 \/ count <= slot

RequestBuffer(slot) ==
    /\ ~aborted
    /\ IF BadSlot(slot, mBufferCount) THEN
           Fail("requestBuffer", slot, BAD_VALUE)
       ELSE
           /\ mSlots' = [mSlots EXCEPT ![slot].mRequestBufferCalled = TRUE]
           /\ ret' = Ret("requestBuffer", slot, OK, mSlots[slot].mGraphicBuffer)
           /\ signalled' = {}
           /\ UNCHANGED <<mQueue, countVars, sessVars, curVars, cfgVars,
                          readPc, aborted, histVars>>

SetSynchronousMode(enabled) ==
    /\ ~aborted
    /\ LET arg == IF enabled THEN 1 ELSE 0
       IN IF mStopped THEN
              Fail("setSynchronousMode", arg, NO_INIT)
          ELSE IF ~enabled THEN
              Fail("setSynchronousMode", arg, INVALID_OPERATION)
          ELSE
              /\ mSynchronousMode' = enabled
              /\ signalled' = IF mSynchronousMode # enabled THEN {"dequeue"} ELSE {}
              /\ ret' = Ret("setSynchronousMode", arg, OK, 0)
              /\ UNCHANGED <<slotVars, countVars, mConnectedApi, mStopped, curVars,
                             cfgVars, readPc, aborted, histVars>>

\* Fault: a stopped session takes a new producer.
ConnectSeesStopNever(stopped) == FALSE

\* connect: if (mStopped) return NO_INIT
ConnectSeesStop(stopped) == stopped

\* Fault: a second producer is let in.
AlreadyConnectedIgnored(connected) == FALSE

\* connect: if (mConnectedApi != NO_CONNECTED_API) err = -EINVAL
AlreadyConnected(connected) == connected # NO_CONNECTED_API

\* Fault: width and height change places.
ConnectOutSwapped(width, height) == <<height, width, 0>>

\* connect: *outWidth = mDefaultWidth; *outHeight = mDefaultHeight;
\* *outTransform = 0
ConnectOut(width, height) == <<width, height, 0>>

Connect(api) ==
    /\ ~aborted
    /\ IF ConnectSeesStop(mStopped) THEN
           Fail("connect", api, NO_INIT)
       ELSE IF api \notin ValidApis \/ AlreadyConnected(mConnectedApi) THEN
           Fail("connect", api, EINVAL)
       ELSE
           /\ mConnectedApi' = api
           /\ ret' = Ret("connect", api, OK, ConnectOut(mDefaultWidth, mDefaultHeight))
           /\ signalled' = {}
           /\ UNCHANGED <<slotVars, countVars, mSynchronousMode, mStopped,
                          curVars, cfgVars, readPc, aborted, histVars>>

\* Fault: any producer may end the session.
IsConnectedProducerAny(connected, api) == connected # NO_CONNECTED_API

\* disconnect: if (mConnectedApi == api)
IsConnectedProducer(connected, api) == connected = api

\* Fault: the encoder's condition is forgotten.
DisconnectSignalsDequeueOnly == {"dequeue"}

\* disconnect: mDequeueCondition.signal(); mFrameAvailableCondition.signal()
DisconnectSignals == {"dequeue", "frame"}

\* Fault: a stopped session is disconnected again.
DisconnectSeesStopNever(stopped) == FALSE

\* disconnect: if (mStopped) return NO_INIT
DisconnectSeesStop(stopped) == stopped

Disconnect(api) ==
    /\ ~aborted
    /\ IF DisconnectSeesStop(mStopped) THEN
           Fail("disconnect", api, NO_INIT)
       ELSE IF api \notin ValidApis \/ ~IsConnectedProducer(mConnectedApi, api) THEN
           Fail("disconnect", api, EINVAL)
       ELSE
           /\ mConnectedApi' = NO_CONNECTED_API
           /\ mStopped' = TRUE
           /\ signalled' = DisconnectSignals
           /\ readPc' = IF "frame" \in DisconnectSignals THEN WakeReader(readPc)
                                                        ELSE readPc
           /\ ret' = Ret("disconnect", api, OK, 0)
           /\ UNCHANGED <<slotVars, countVars, mSynchronousMode, curVars,
                          cfgVars, aborted, histVars>>

\* Fault: the two ends of the range are refused.
BadFrameRateAtEnds(fps) == fps <= 0 \/ fps >= MAX_FRAME_RATE

\* setFrameRate: if (fps < 0 || fps > MAX_FRAME_RATE)
BadFrameRate(fps) == fps < 0 \/ fps > MAX_FRAME_RATE

SetFrameRate(fps) ==
    /\ ~aborted
    /\ IF BadFrameRate(fps) THEN
           Fail("setFrameRate", fps, BAD_VALUE)
       ELSE
           /\ mFrameRate' = fps
           /\ ret' = Ret("setFrameRate", fps, OK, 0)
           /\ signalled' = {}
           /\ UNCHANGED <<slotVars, countVars, sessVars, curVars, mDefaultWidth,
                          mDefaultHeight, mFrameAvailableListener, readPc,
                          aborted, histVars>>

\* int32_t getFrameRate() const; getFormat() stores the same member under
\* kKeyFrameRate
getFrameRate == mFrameRate

\* setFrameAvailableListener: mFrameAvailableListener = listener (a null
\* listener is FALSE)
SetFrameAvailableListener(listener) ==
    /\ ~aborted
    /\ mFrameAvailableListener' = listener
    /\ ret' = Ret("setFrameAvailableListener", IF listener THEN 1 ELSE 0, NONE, 0)
    /\ signalled' = {}
    /\ UNCHANGED <<slotVars, countVars, sessVars, curVars, mFrameRate,
                   mDefaultWidth, mDefaultHeight, readPc, aborted, histVars>>

\* Fault: stop() leaves the queued frames in place.
StopQueueKept(q) == q

\* stop: mQueue.clear()
StopQueue(q) == <<>>

\* Fault: stop() wakes the producer only.
StopSignalsDequeueOnly == {"dequeue"}

\* stop: mFrameAvailableCondition.signal(); mDequeueCondition.signal()
StopSignals == {"frame", "dequeue"}

Stop ==
    /\ ~aborted
    /\ mStopped' = TRUE
    /\ signalled' = StopSignals
    /\ readPc' = IF "frame" \in StopSignals THEN WakeReader(readPc) ELSE readPc
    /\ mQueue' = StopQueue(mQueue)
    /\ mSlots' = freeAllBuffersLocked(mSlots)
    /\ ret' = Ret("stop", 0, OK, 0)
    /\ pending' = <<>>
    /\ UNCHANGED <<countVars, mSynchronousMode, mConnectedApi, curVars,
                   cfgVars, aborted, numQueued, delivered, outstanding>>

\* read(), from the test of the wait loop on: wait again, or return.
\* Fifo::iterator front(mQueue.begin()); mCurrentSlot = *front; mQueue.erase(front)
FifoBack(q) == q[Len(q)]       \* fault: the newest frame is taken
FifoFront(q) == Head(q)
FifoEraseBack(q) == SubSeq(q, 1, Len(q) - 1)   \* fault: the wrong end is erased
FifoEraseFront(q) == Tail(q)

\* Fault: a stopped session still drains its queue.
ReadStoppedWhenDrained(stopped, q) == stopped /\ q = <<>>

\* read(), after the loop: if (mStopped) return ERROR_END_OF_STREAM
ReadStopped(stopped, q) == stopped

\* Fault: the loop forgets mStopped.
ReadMustWaitWhileEmpty(stopped, q) == q = <<>>

\* read(): while (!mStopped && mQueue.empty())
ReadMustWait(stopped, q) == ~stopped /\ q = <<>>

\* Fault: the record of the frame before is handed out again.
ReadStaleRecord == mCurrentBuf

\* read(): *buffer = NULL, and nothing else on the way to
\* return ERROR_END_OF_STREAM
ReadNoRecord == NoBuffer

ReadFromLoop ==
    IF ReadMustWait(mStopped, mQueue) THEN
        /\ readPc' = "waiting"
        /\ signalled' = {}
        /\ UNCHANGED <<slotVars, countVars, sessVars, curVars, cfgVars, ret,
                       aborted, histVars>>
    ELSE IF ReadStopped(mStopped, mQueue) THEN
        /\ readPc' = "idle"
        /\ ret' = Ret("read", 0, ERROR_END_OF_STREAM, ReadNoRecord)
        /\ signalled' = {}
        /\ UNCHANGED <<slotVars, countVars, sessVars, curVars, cfgVars,
                       aborted, histVars>>
    ELSE
        LET slot == FifoFront(mQueue)
            buf == mSlots[slot].mGraphicBuffer
        IN /\ readPc' = "idle"
           /\ mCurrentSlot' = slot
           /\ mQueue' = FifoEraseFront(mQueue)
           /\ mCurrentBuf' = buf
           /\ mCurrentTimestamp' = mSlots[slot].mTimestamp
           /\ mNumFramesEncoded' = mNumFramesEncoded + 1
           \* passMetadataBufferLocked reads mCurrentBuf->handle
           /\ aborted' = (buf = NoBuffer)
           /\ ret' = Ret("read", 0, IF buf = NoBuffer THEN FATAL ELSE OK, buf)
           /\ signalled' = {}
           /\ pending' = Tail(pending)
           /\ delivered' = delivered \cup {slot}
           /\ outstanding' = IF buf = NoBuffer THEN outstanding
                              ELSE [outstanding EXCEPT ![buf] = @ + 1]
           /\ UNCHANGED <<mSlots, countVars, sessVars, cfgVars, numQueued>>

ReadEnter ==
    /\ ~aborted
    /\ readPc = "idle"
    /\ ReadFromLoop

ReadResume ==
    /\ ~aborted
    /\ readPc = "woken"
    /\ ReadFromLoop

\* A condition wait may return with no signal.
SpuriousWakeup ==
    /\ ~aborted
    /\ readPc = "waiting"
    /\ readPc' = "woken"
    /\ UNCHANGED <<slotVars, countVars, sessVars, curVars, cfgVars, ret,
                   signalled, aborted, histVars>>

\* Fault: any slot that holds a buffer matches.
checkBufferMatchesAny(slots, id, handle) == TRUE

\* checkBufferMatchesSlot(slot, buffer): the handle bytes of the record against
\* the slot's buffer handle.
checkBufferMatchesSlot(slots, id, handle) == slots[id].mGraphicBuffer = handle

\* The slot signalBufferReturned's scan stops at, or -1.
MatchingSlot(slots, handle) ==
    LET found == {id \in SlotIds : /\ slots[id].mGraphicBuffer # NoBuffer
                                   /\ checkBufferMatchesSlot(slots, id, handle)}
    IN IF found = {} THEN -1
       ELSE CHOOSE id \in found : \A other \in found : id <= other

\* Fault: an unknown record is dropped silently.
ReturnOutcomeSilent(id) == OK

\* if (!foundBuffer) CHECK_EQ(0, "signalBufferReturned: bogus buffer")
ReturnOutcome(id) == IF id = -1 THEN FATAL ELSE OK

\* Fault: the frame-completion condition is forgotten.
ReturnSignalsDequeueOnly == {"dequeue"}

\* signalBufferReturned, on a match: mDequeueCondition.signal();
\* mFrameCompleteCondition.signal()
ReturnSignals == {"dequeue", "complete"}

\* Fault: a stopped session still looks the record up.
ReturnSeesStopNever(stopped) == FALSE

\* signalBufferReturned: if (mStopped) { ...; return; }
ReturnSeesStop(stopped) == stopped

\* The encoder releases a record: MediaBuffer::release() calls its observer.
SignalBufferReturned(handle) ==
    /\ ~aborted
    /\ outstanding[handle] > 0
    /\ outstanding' = [outstanding EXCEPT ![handle] = @ - 1]
    /\ IF ReturnSeesStop(mStopped) THEN
           /\ ret' = Ret("signalBufferReturned", handle, OK, -1)
           /\ signalled' = {}
           /\ UNCHANGED <<slotVars, countVars, sessVars, curVars, cfgVars,
                          readPc, aborted, pending, numQueued, delivered>>
       ELSE LET id == MatchingSlot(mSlots, handle)
            IN IF id = -1 THEN
                   /\ aborted' = (ReturnOutcome(id) = FATAL)
                   /\ ret' = Ret("signalBufferReturned", handle, ReturnOutcome(id), -1)
                   /\ signalled' = {}
                   /\ UNCHANGED <<slotVars, countVars, sessVars, curVars,
                                  cfgVars, readPc, pending, numQueued,
                                  delivered>>
               ELSE
                   \* buffer->release() drops the reference read() took on
                   \* the record; mSlots[id].mGraphicBuffer stays
                   /\ mSlots' = [mSlots EXCEPT ![id].mBufferState = FREE]
                   /\ signalled' = ReturnSignals
                   /\ ret' = Ret("signalBufferReturned", handle, OK, id)
                   /\ UNCHANGED <<mQueue, countVars, sessVars, curVars,
                                  cfgVars, readPc, aborted, pending, numQueued,
                                  delivered>>

\* Fault: the listener is called inside the scope of the lock.
ListenerAfterUnlockInside(listener) ==
    IF listener THEN {"listener under mMutex"} ELSE {}

\* onFrameAvailable: the listener is copied inside the "scope for the lock"
\* and called after it
ListenerAfterUnlock(listener) == IF listener THEN {"listener"} ELSE {}

\* BufferQueue::ConsumerListener::onFrameAvailable
OnFrameAvailable ==
    /\ ~aborted
    /\ signalled' = {"frame"} \cup ListenerAfterUnlock(mFrameAvailableListener)
    /\ readPc' = WakeReader(readPc)
    /\ ret' = Ret("onFrameAvailable", 0, NONE, 0)
    /\ UNCHANGED <<slotVars, countVars, sessVars, curVars, cfgVars, aborted,
                   histVars>>

\* onBuffersReleased: mBufferSlot[] is written here and read nowhere
OnBuffersReleased ==
    /\ ~aborted
    /\ signalled' = {"frame"}
    /\ readPc' = WakeReader(readPc)
    /\ ret' = Ret("onBuffersReleased", 0, NONE, 0)
    /\ UNCHANGED <<slotVars, countVars, sessVars, curVars, cfgVars, aborted,
                   histVars>>

\* -------------------------------------------------- the producer (design text)

\* Buffers alive: referenced by a slot or by mCurrentBuf.
LiveHandles == {mSlots[i].mGraphicBuffer : i \in SlotIds} \cup {mCurrentBuf}

\* The allocator hands out the lowest handle value no live buffer has.
NewHandle == CHOOSE h \in Handles \ LiveHandles :
                 \A g \in Handles \ LiveHandles : h <= g

\* The count in force at a slot acquisition: a server count recorded by
\* setBufferCountServer takes effect here, unless the client set its own or
\* owns a buffer.
CountAtDequeue ==
    IF /\ mClientBufferCount = 0
       /\ mServerBufferCount # mBufferCount
       /\ \A i \in SlotIds : mSlots[i].mBufferState # DEQUEUED
    THEN mServerBufferCount
    ELSE mBufferCount

\* The free slots a dequeue may hand out: below the buffer count in force.
FreeSlots == {i \in SlotIds : i < CountAtDequeue /\ mSlots[i].mBufferState = FREE}

\* FREE -> DEQUEUED: the producer acquires the first free slot below the buffer
\* count (it waits on the dequeue condition while there is none); a slot with
\* no buffer gets one allocated.
DequeueBuffer ==
    /\ ~aborted
    /\ IF mStopped THEN
           Fail("dequeueBuffer", 0, NO_INIT)
       ELSE
           /\ FreeSlots # {}
           /\ LET slot == CHOOSE i \in FreeSlots : \A other \in FreeSlots : i <= other
                  buf == IF mSlots[slot].mGraphicBuffer = NoBuffer
                         THEN NewHandle ELSE mSlots[slot].mGraphicBuffer
              IN /\ mSlots' = [mSlots EXCEPT ![slot].mBufferState = DEQUEUED,
                                             ![slot].mGraphicBuffer = buf]
                 /\ ret' = Ret("dequeueBuffer", slot, OK, buf)
           /\ mBufferCount' = CountAtDequeue
           /\ signalled' = {}
           /\ UNCHANGED <<mQueue, mServerBufferCount, mClientBufferCount, sessVars,
                          curVars, cfgVars, readPc, aborted, histVars>>

\* Fault: the frame is queued without the signal.
onFrameReceivedSilent(pc) == pc

\* onFrameReceivedLocked(): called from queueBuffer with the mutex held
onFrameReceivedLocked(pc) == WakeReader(pc)

\* onFrameReceivedLocked(), "call back the listener": the caller holds mMutex
\* ("Make sure this is called when the mutex is locked")
ListenerUnderLock(listener, sync, q) ==
    IF listener /\ (sync \/ q = <<>>) THEN {"listener under mMutex"} ELSE {}

\* DEQUEUED -> QUEUED: the producer submits the filled buffer of a slot it owns.
QueueBuffer(slot) ==
    /\ ~aborted
    /\ mSlots[slot].mBufferState = DEQUEUED
    /\ IF mStopped THEN
           Fail("queueBuffer", slot, NO_INIT)
       ELSE
           /\ numQueued < MaxFrames
           /\ mSlots' = [mSlots EXCEPT ![slot].mBufferState = QUEUED,
                                       ![slot].mTimestamp = numQueued + 1]
           /\ mQueue' = Append(mQueue, slot)
           /\ readPc' = onFrameReceivedLocked(readPc)
           /\ signalled' = {"frame"} \cup
                  ListenerUnderLock(mFrameAvailableListener, mSynchronousMode,
                                    Append(mQueue, slot))
           /\ ret' = Ret("queueBuffer", slot, OK, 0)
           /\ pending' = Append(pending, slot)
           /\ numQueued' = numQueued + 1
           /\ delivered' = delivered \ {slot}
           /\ UNCHANGED <<countVars, sessVars, curVars, cfgVars, aborted,
                          outstanding>>

\* ------------------------------------------------------------ specifications

\* The calls whose effect is on the three buffer counts only.
Capacity ==
    \/ \E k \in CountArgs : SetBufferCountServer(k)
    \/ \E k \in CountArgs : SetBufferCount(k)

\* The producer, the encoder's read() and the return of its records.
Flow ==
    \/ DequeueBuffer
    \/ \E s \in SlotIds : QueueBuffer(s)
    \/ ReadEnter
    \/ ReadResume
    \/ SpuriousWakeup
    \/ \E h \in Handles : SignalBufferReturned(h)
    \/ OnFrameAvailable
    \/ OnBuffersReleased
    \/ \E a \in {NATIVE_WINDOW_API_CPU} : Connect(a)

\* The end of the session and the resize, which drop the queued frames.
Cancel ==
    \/ Stop
    \/ \E a \in {NATIVE_WINDOW_API_CPU} : Disconnect(a)
    \/ \E k \in {NUM_BUFFER_SLOTS} : SetBufferCount(k)

Next ==
    \/ Flow
    \/ Cancel

\* The slices below do not look at what connect() reports: they start from one
\* of the default sizes.
InitOneSize == Init /\ mDefaultWidth = 0 /\ mDefaultHeight = 0

Spec == InitOneSize /\ [][Next]_vars

\* The session to its end: the flow and the two ways of ending it. A thread
\* made runnable by a signal does run.
NextLive ==
    \/ Flow
    \/ Stop
    \/ \E a \in {NATIVE_WINDOW_API_CPU} : Disconnect(a)

SpecLive == InitOneSize /\ [][NextLive]_vars /\ WF_vars(ReadResume)

\* Scenario: a running session, the producer against the blocked reader.
SpecFlow == InitOneSize /\ [][Flow]_vars /\ WF_vars(ReadResume)

NextCount ==
    \/ Capacity
    \/ DequeueBuffer
    \/ \E s \in SlotIds : QueueBuffer(s)

SpecCount == InitOneSize /\ [][NextCount]_vars

\* The session: every connect/disconnect argument, the mode switch and stop,
\* with the producer and the encoder at work.
NextSession ==
    \/ \E a \in ApiArgs : Connect(a)
    \/ \E a \in ApiArgs : Disconnect(a)
    \/ \E enabled \in BOOLEAN : SetSynchronousMode(enabled)
    \/ Stop
    \/ DequeueBuffer
    \/ \E s \in SlotIds : QueueBuffer(s)
    \/ ReadEnter
    \/ ReadResume

SpecSession == Init /\ [][NextSession]_vars /\ WF_vars(ReadResume)

\* The calls that configure the session, over every kind of argument, on a
\* session that may be stopped. No producer runs, so mBufferCount stays within
\* the table; the server's count, which is only compared and copied, may
\* start beyond it.
FrameRateArgs == {-1, 0, 30, MAX_FRAME_RATE, MAX_FRAME_RATE + 1}
SlotArgs == {-1, 0, NUM_BUFFER_SLOTS - 1, NUM_BUFFER_SLOTS}
ConfigApis == {NO_CONNECTED_API, NATIVE_WINDOW_API_EGL, NATIVE_WINDOW_API_CPU}
InitConfig ==
    /\ Constructed(UninitCounts \cup {NUM_BUFFER_SLOTS + 1})
    /\ mDefaultWidth = 0 /\ mDefaultHeight = 0

NextConfig ==
    \/ \E fps \in FrameRateArgs : SetFrameRate(fps)
    \/ \E slot \in SlotArgs : RequestBuffer(slot)
    \/ Capacity
    \/ \E enabled \in BOOLEAN : SetSynchronousMode(enabled)
    \/ \E a \in ConfigApis : Connect(a)
    \/ \E a \in ConfigApis : Disconnect(a)
    \/ Stop

SpecConfig == InitConfig /\ [][NextConfig]_vars

\* The two capacity calls alone, over every kind of argument, from a session
\* whose counts are in order: a count of 2 .. NUM_BUFFER_SLOTS in force and no
\* client count; the server's count is any value.
ValidCounts == 2 .. NUM_BUFFER_SLOTS
InitValidCounts ==
    /\ ConstructedWith(ValidCounts, 0 .. (NUM_BUFFER_SLOTS + 1), {0})
    /\ mDefaultWidth = 0 /\ mDefaultHeight = 0

SpecCapacity == InitValidCounts /\ [][Capacity]_vars

\* A listener on the session: the two paths that call it, with the producer
\* and the encoder at work.
NextListener ==
    \/ \E listener \in BOOLEAN : SetFrameAvailableListener(listener)
    \/ DequeueBuffer
    \/ \E s \in SlotIds : QueueBuffer(s)
    \/ OnFrameAvailable
    \/ ReadEnter
    \/ ReadResume
    \/ \E h \in Handles : SignalBufferReturned(h)

SpecListener == InitOneSize /\ [][NextListener]_vars

\* ------------------------------------------------------------------ claims

\* The result classes of the design text, as status_t values: a bad slot index
\* (requestBuffer) and a bad buffer count are BAD_VALUE, an identity mismatch
\* (connect, disconnect) is -EINVAL; INVALID_OPERATION is "illegal state".
InvalidArgument == {BAD_VALUE, EINVAL}
IllegalState == {INVALID_OPERATION}

Range(q) == {q[n] : n \in 1 .. Len(q)}
QueuedSlots == {i \in SlotIds : mSlots[i].mBufferState = QUEUED}
DequeuedSlots == {i \in SlotIds : mSlots[i].mBufferState = DEQUEUED}
\* A step of read() that hands out a frame.
ReadDelivers == (ReadEnter \/ ReadResume) /\ mNumFramesEncoded' = mNumFramesEncoded + 1
\* Everything signalBufferReturned, setBufferCount, ... may touch, but the
\* result of the call and the record of the signals.
stateVars == <<slotVars, countVars, sessVars, curVars, cfgVars, readPc, aborted>>

\* C1: on a session that has not stopped, mQueue holds the frames queued and not
\* yet delivered in their order of arrival; a read() that delivers takes the
\* oldest of them, and removes that one element from mQueue.
C1_FifoOrder ==
    /\ [](~mStopped => mQueue = pending)
    /\ [][ReadDelivers => /\ mCurrentSlot' = Head(pending)
                          /\ mQueue' = Tail(mQueue)]_vars
\* Slot 1 was queued first, slot 0 second, both were delivered, slot 0 last.
C1_Witness ==
    /\ ~mStopped /\ mNumFramesEncoded = 2 /\ mCurrentSlot = 0
    /\ mSlots[1].mTimestamp = 1 /\ mSlots[0].mTimestamp = 2
    /\ ret.op = "read" /\ ret.status = OK

C3_RoundTrip ==
    /\ [][ReadDelivers => /\ ret'.status = OK
                          /\ ret'.out # NoBuffer
                          /\ ret'.out = mSlots[Head(pending)].mGraphicBuffer]_vars
    /\ [][\A i \in SlotIds :
            (/\ ret'.op = "signalBufferReturned"
             /\ SignalBufferReturned(ret'.arg)
             /\ ~mStopped
             /\ mSlots[i].mGraphicBuffer = ret'.arg)
                => /\ ret'.status = OK
                   /\ mSlots'[i].mBufferState = FREE]_vars
\* Connected, running: slot 1's frame went to the encoder and came back while
\* slot 0 holds another buffer.
C3_Witness ==
    /\ ~mStopped /\ mConnectedApi = NATIVE_WINDOW_API_CPU
    /\ ret.op = "signalBufferReturned" /\ ret.status = OK /\ ret.out = 1
    /\ mCurrentSlot = 1 /\ mCurrentBuf = ret.arg
    /\ mSlots[1].mBufferState = FREE /\ mSlots[1].mGraphicBuffer = ret.arg
    /\ mSlots[0].mGraphicBuffer # NoBuffer

\* C4: read() on an empty mQueue of a running session does not return, it
\* waits; and a read() that is blocked while a frame is in mQueue comes back
\* with OK and the oldest frame.
C4_BlockedReadGetsFrame ==
    /\ [][((ReadEnter \/ ReadResume) /\ ~mStopped /\ mQueue = <<>>)
             => (readPc' = "waiting" /\ ret' = ret)]_vars
    /\ \A s \in SlotIds :
          (readPc # "idle" /\ ~mStopped /\ mQueue # <<>> /\ Head(mQueue) = s)
             ~> (readPc = "idle" /\ ret.op = "read" /\ ret.status = OK
                   /\ mCurrentSlot = s)
\* The reader was blocked and queueBuffer has just put the only frame in mQueue.
C4_Witness ==
    /\ readPc = "woken" /\ ~mStopped
    /\ ret.op = "queueBuffer" /\ mQueue = <<ret.arg>>

\* C5: a read() that is blocked when disconnect(api) succeeds returns
\* ERROR_END_OF_STREAM.
C5_DisconnectUnblocksRead ==
    (readPc # "idle" /\ ret.op = "disconnect" /\ ret.status = OK)
       ~> (readPc = "idle" /\ ret.op = "read" /\ ret.status = ERROR_END_OF_STREAM)
\* No frame was ever queued, the reader is blocked, disconnect has succeeded.
C5_Witness ==
    /\ numQueued = 0 /\ readPc = "woken" /\ mStopped
    /\ ret.op = "disconnect" /\ ret.status = OK

C7_OutOfRangeDistinct ==
    [][\A k \in CountArgs : (k > NUM_BUFFER_SLOTS /\ SetBufferCount(k))
          => /\ ret'.status \notin {OK} \cup InvalidArgument \cup IllegalState
             /\ UNCHANGED <<stateVars, histVars>>]_vars
\* C7 (amended): setBufferCount(k), k > NUM_BUFFER_SLOTS, is refused with
\* BAD_VALUE, the result of the other bad arguments, and changes nothing.
C7_TooManyIsBadValue ==
    [][\A k \in CountArgs : (k > NUM_BUFFER_SLOTS /\ SetBufferCount(k))
          => /\ ret'.status = BAD_VALUE
             /\ UNCHANGED <<stateVars, histVars>>]_vars
C7_Witness ==
    /\ ret.op = "setBufferCount" /\ ret.arg = NUM_BUFFER_SLOTS + 1
    /\ ret.status = BAD_VALUE

\* C8 (as claimed): setBufferCount(1), no slot DEQUEUED, fails with "illegal
\* state".
C8_OneIsIllegalState ==
    [][(SetBufferCount(1) /\ DequeuedSlots = {})
          => ret'.status \in IllegalState]_vars
\* C8 (amended): setBufferCount(1), no slot DEQUEUED, fails with BAD_VALUE
\* ("invalid argument") and changes nothing.
C8_OneIsBadValue ==
    [][(SetBufferCount(1) /\ DequeuedSlots = {})
          => /\ ret'.status = BAD_VALUE
             /\ UNCHANGED <<stateVars, histVars>>]_vars
C8_Witness ==
    /\ ret.op = "setBufferCount" /\ ret.arg = 1 /\ ret.status = BAD_VALUE
    /\ DequeuedSlots = {}
    /\ QueuedSlots # {}

\* C9: setBufferCount(k), MIN_ASYNC_BUFFER_SLOTS <= k <= NUM_BUFFER_SLOTS, no
\* slot DEQUEUED, succeeds and leaves mBufferCount = mClientBufferCount = k.
C9_ClientCountApplied ==
    [][\A k \in MIN_ASYNC_BUFFER_SLOTS .. NUM_BUFFER_SLOTS :
          (SetBufferCount(k) /\ DequeuedSlots = {})
             => /\ ret'.status = OK
                /\ mBufferCount' = k
                /\ mClientBufferCount' = k]_vars
\* setBufferCount(NUM_BUFFER_SLOTS) has changed both counts.
C9_Witness ==
    /\ ret.op = "setBufferCount" /\ ret.arg = NUM_BUFFER_SLOTS /\ ret.status = OK
    /\ mBufferCount = NUM_BUFFER_SLOTS /\ mClientBufferCount = NUM_BUFFER_SLOTS
    /\ mServerBufferCount # NUM_BUFFER_SLOTS

\* C10: setBufferCount(k), k <= NUM_BUFFER_SLOTS, while any slot of the table
\* is DEQUEUED fails with INVALID_OPERATION; the counts, mQueue, mCurrentSlot
\* and the slots are unchanged.
C10_ResizeRefusedWhileDequeued ==
    [][\A k \in CountArgs :
          (k <= NUM_BUFFER_SLOTS /\ SetBufferCount(k) /\ DequeuedSlots # {})
             => /\ ret'.status = INVALID_OPERATION
                /\ UNCHANGED <<countVars, slotVars, mCurrentSlot>>]_vars
\* The only DEQUEUED slot is the last of the table.
C10_Witness ==
    /\ ret.op = "setBufferCount" /\ ret.status = INVALID_OPERATION
    /\ DequeuedSlots = {NUM_BUFFER_SLOTS - 1}

\* C11: a successful setBufferCount(k), k > 0, leaves mQueue empty, every slot
\* of the table FREE with no buffer, mCurrentSlot invalid, and has signalled
\* the dequeue condition.
C11_ResizeClearsAll ==
    [][(/\ ret'.op = "setBufferCount" /\ ret'.arg > 0 /\ ret'.status = OK
        /\ SetBufferCount(ret'.arg))
             => /\ mQueue' = <<>>
                /\ \A i \in SlotIds : /\ mSlots'[i].mBufferState = FREE
                                      /\ mSlots'[i].mGraphicBuffer = NoBuffer
                /\ mCurrentSlot' = INVALID_BUFFER_SLOT
                /\ "dequeue" \in signalled']_vars
\* The resize came on a running session after one frame was delivered (so
\* mCurrentSlot was set) and a second one queued, the record still with the
\* encoder.
C11_Witness ==
    /\ ret.op = "setBufferCount" /\ ret.arg > 0 /\ ret.status = OK
    /\ ~mStopped /\ numQueued = 2 /\ mNumFramesEncoded = 1
    /\ \E h \in Handles : outstanding[h] > 0
    /\ mCurrentSlot = INVALID_BUFFER_SLOT /\ mQueue = <<>>

\* C12: setBufferCountServer(k), k <= NUM_BUFFER_SLOTS: with no client count and
\* k >= mBufferCount, mBufferCount and mServerBufferCount both become k at once;
\* otherwise, for k >= 2, mServerBufferCount becomes k and mBufferCount, mQueue
\* and the slots are unchanged.
C12_ServerCountAppliedOrDeferred ==
    [][\A k \in CountArgs :
          (k <= NUM_BUFFER_SLOTS /\ SetBufferCountServer(k))
             => IF mClientBufferCount = 0 /\ k >= mBufferCount
                THEN mBufferCount' = k /\ mServerBufferCount' = k
                ELSE k >= 2 => /\ mServerBufferCount' = k
                               /\ UNCHANGED <<mBufferCount, slotVars>>]_vars

\* C13: setSynchronousMode(false) fails with "illegal state" in every reachable
\* state, a stopped session included, and mSynchronousMode is true in every
\* reachable state.
C13_AsyncAlwaysIllegalState ==
    /\ [](mSynchronousMode = TRUE)
    /\ [][SetSynchronousMode(FALSE) => ret'.status \in IllegalState]_vars

\* The result class of a call on a stopped session.
NotInitialized == {NO_INIT}

\* C14 (as claimed): connect(api) with a producer connected, or on a stopped
\* session, fails with "invalid argument" and leaves mConnectedApi unchanged.
C14_ConnectRefusedInvalidArgument ==
    [][(/\ ret'.op = "connect" /\ Connect(ret'.arg)
        /\ (mConnectedApi # NO_CONNECTED_API \/ mStopped))
             => /\ ret'.status \in InvalidArgument
                /\ mConnectedApi' = mConnectedApi]_vars
\* C14 (amended): connect(api) on a stopped session fails with NO_INIT, and on
\* a running session with a producer connected with -EINVAL; either way
\* mConnectedApi, as all the state, is unchanged.
C14_ConnectRefused ==
    [][(/\ ret'.op = "connect" /\ Connect(ret'.arg)
        /\ (mConnectedApi # NO_CONNECTED_API \/ mStopped))
             => /\ ret'.status = IF mStopped THEN NO_INIT ELSE EINVAL
                /\ mConnectedApi' = mConnectedApi
                /\ UNCHANGED <<stateVars, histVars>>]_vars
\* A second producer, with a valid identity of its own, was refused on a
\* running session.
C14_Witness ==
    /\ ret.op = "connect" /\ ret.status = EINVAL /\ ~mStopped
    /\ ret.arg \in ValidApis /\ mConnectedApi \in ValidApis
    /\ ret.arg # mConnectedApi

\* C15: connect(api), api one of the four producer kinds, on a running session
\* with no producer connected succeeds, records api, reports mDefaultWidth,
\* mDefaultHeight and transform 0, and changes neither the slots, mQueue, the
\* buffer counts nor mStopped.
C15_ConnectRecordsProducer ==
    [][(/\ ret'.op = "connect" /\ ret'.arg \in ValidApis /\ Connect(ret'.arg)
        /\ ~mStopped /\ mConnectedApi = NO_CONNECTED_API)
             => /\ ret'.status = OK
                /\ mConnectedApi' = ret'.arg
                /\ ret'.out = <<mDefaultWidth, mDefaultHeight, 0>>
                /\ UNCHANGED <<slotVars, countVars, mStopped>>]_vars
\* The camera connected while a frame sat in mQueue; width and height differ.
C15_Witness ==
    /\ ret.op = "connect" /\ ret.status = OK
    /\ ret.arg = NATIVE_WINDOW_API_CAMERA /\ mConnectedApi = NATIVE_WINDOW_API_CAMERA
    /\ mDefaultWidth # mDefaultHeight
    /\ mQueue # <<>> /\ ~mStopped

\* C16 (as claimed): disconnect(api) with api not the connected identity, or on
\* a stopped session, fails with "invalid argument", leaves mConnectedApi and
\* mStopped unchanged and wakes nobody.
C16_DisconnectRefusedInvalidArgument ==
    [][(/\ ret'.op = "disconnect" /\ Disconnect(ret'.arg)
        /\ (ret'.arg # mConnectedApi \/ mStopped))
             => /\ ret'.status \in InvalidArgument
                /\ UNCHANGED <<mConnectedApi, mStopped, readPc>>
                /\ signalled' = {}]_vars
\* C16 (amended): disconnect(api) on a stopped session fails with NO_INIT, and
\* on a running session with api not the connected identity with -EINVAL;
\* either way mConnectedApi and mStopped are unchanged and nobody is woken.
C16_DisconnectRefused ==
    [][(/\ ret'.op = "disconnect" /\ Disconnect(ret'.arg)
        /\ (ret'.arg # mConnectedApi \/ mStopped))
             => /\ ret'.status = IF mStopped THEN NO_INIT ELSE EINVAL
                /\ UNCHANGED <<mConnectedApi, mStopped, readPc>>
                /\ signalled' = {}]_vars
\* The encoder waits in read(), a producer is connected, and another producer's
\* disconnect was refused: the encoder still waits.
C16_Witness ==
    /\ ret.op = "disconnect" /\ ret.status = EINVAL /\ ~mStopped
    /\ ret.arg \in ValidApis /\ mConnectedApi \in ValidApis
    /\ ret.arg # mConnectedApi
    /\ readPc = "waiting"

\* C17: a successful disconnect(api) clears mConnectedApi, sets mStopped and
\* signals the frame-available and the dequeue condition; the encoder, if it
\* was waiting in read(), is made runnable, and finds mStopped set whenever it
\* runs again.
C17_DisconnectStopsAndSignals ==
    /\ [][(ret'.op = "disconnect" /\ ret'.status = OK /\ Disconnect(ret'.arg))
               => /\ mConnectedApi' = NO_CONNECTED_API
                  /\ mStopped'
                  /\ {"frame", "dequeue"} \subseteq signalled'
                  /\ (readPc = "waiting" => readPc' = "woken")]_vars
    /\ [][(mStopped /\ readPc = "woken") => (mStopped' /\ readPc' # "waiting")]_vars
\* EGL has disconnected from a session that had delivered frames; the encoder,
\* waiting for the next one, was woken.
C17_Witness ==
    /\ ret.op = "disconnect" /\ ret.status = OK /\ ret.arg = NATIVE_WINDOW_API_EGL
    /\ mStopped /\ mConnectedApi = NO_CONNECTED_API
    /\ signalled = {"dequeue", "frame"}
    /\ readPc = "woken" /\ mNumFramesEncoded > 0

\* C18: once mStopped is set it stays set, and on a stopped session every
\* connect(api) fails and mConnectedApi never takes a new identity.
C18_StoppedIsTerminal ==
    /\ [][mStopped => mStopped']_vars
    /\ [][(mStopped /\ ret'.op = "connect" /\ Connect(ret'.arg)) => ret'.status # OK]_vars
    /\ [][mStopped => mConnectedApi' = mConnectedApi]_vars
\* The session ran (a frame was queued), was stopped with no producer
\* connected, and a connect with a valid identity was then refused.
C18_Witness ==
    /\ mStopped /\ numQueued > 0
    /\ ret.op = "connect" /\ ret.arg \in ValidApis /\ ret.status = NO_INIT
    /\ mConnectedApi = NO_CONNECTED_API

AllFree == \A i \in SlotIds : mSlots[i].mBufferState = FREE

\* C19 (as claimed): whenever mStopped is set, mQueue is empty and every slot
\* is FREE, and no step moves a slot to QUEUED or DEQUEUED.
C19_StoppedMeansDrained ==
    /\ [](mStopped => (mQueue = <<>> /\ AllFree))
    /\ [][mStopped => \A i \in SlotIds :
             mSlots'[i].mBufferState \in {mSlots[i].mBufferState, FREE}]_vars
\* C19 (amended): stop() leaves mQueue empty and every slot FREE, and a stopped
\* session that is drained stays drained; on a stopped session (stopped by
\* disconnect too, which leaves mQueue and the slots as they were) no step
\* moves a slot to QUEUED or DEQUEUED or adds to mQueue.
C19_StopDrainsDisconnectDoesNot ==
    /\ [][Stop => (mQueue' = <<>> /\ AllFree')]_vars
    /\ [][(mStopped /\ mQueue = <<>> /\ AllFree) => (mQueue' = <<>> /\ AllFree')]_vars
    /\ [][(ret'.op = "disconnect" /\ ret'.status = OK /\ Disconnect(ret'.arg))
             => UNCHANGED slotVars]_vars
    /\ [][mStopped => /\ \A i \in SlotIds :
                           mSlots'[i].mBufferState \in {mSlots[i].mBufferState, FREE}
                      /\ Len(mQueue') <= Len(mQueue)]_vars
\* After a disconnect a frame is still in mQueue, and the producer, holding a
\* DEQUEUED slot, had its queueBuffer refused.
C19_Witness ==
    /\ mStopped /\ mQueue # <<>>
    /\ ret.op = "queueBuffer" /\ ret.status = NO_INIT
    /\ mSlots[ret.arg].mBufferState = DEQUEUED

\* C20: a read() that finds mStopped set, on entry or after a wake-up, returns
\* ERROR_END_OF_STREAM and delivers nothing: mQueue, the slots and the current
\* frame are as before, whatever mQueue holds.
C20_StopBeforeDrain ==
    [][((ReadEnter \/ ReadResume) /\ mStopped)
          => /\ ret'.op = "read" /\ ret'.status = ERROR_END_OF_STREAM
             /\ readPc' = "idle"
             /\ UNCHANGED <<slotVars, curVars, pending>>]_vars
\* read() returned end of stream with a frame still in mQueue.
C20_Witness ==
    /\ ret.op = "read" /\ ret.status = ERROR_END_OF_STREAM
    /\ mStopped /\ mQueue # <<>>

\* A step of read() that returns a record.
ReadReturnsRecord ==
    (ReadEnter \/ ReadResume) /\ readPc' = "idle" /\ ret'.status = OK

\* C21: a read() that succeeds takes the head h of mQueue: mCurrentSlot is h,
\* mCurrentBuf and mCurrentTimestamp are slot h's buffer and timestamp,
\* mNumFramesEncoded grows by exactly 1, the record returned carries the handle
\* of slot h's buffer, and mQueue is what it was without its head.
C21_ReadTakesHead ==
    [][ReadReturnsRecord =>
          LET h == mQueue[1]
          IN /\ mQueue # <<>>
             /\ mCurrentSlot' = h
             /\ mCurrentBuf' = mSlots[h].mGraphicBuffer
             /\ mCurrentTimestamp' = mSlots[h].mTimestamp
             /\ mNumFramesEncoded' = mNumFramesEncoded + 1
             /\ ret'.op = "read" /\ ret'.out = mSlots[h].mGraphicBuffer
             /\ Len(mQueue') = Len(mQueue) - 1
             /\ \A n \in 1 .. Len(mQueue') : mQueue'[n] = mQueue[n + 1]]_vars
\* read() returned the older of two queued frames; the newer one is still in
\* mQueue.
C21_Witness ==
    /\ ret.op = "read" /\ ret.status = OK /\ readPc = "idle"
    /\ Len(mQueue) >= 1
    /\ mCurrentSlot \notin Range(mQueue)
    /\ mCurrentTimestamp < mSlots[mQueue[1]].mTimestamp
    /\ mNumFramesEncoded = 1

\* C22: signalBufferReturned on a stopped session changes nothing, whatever the
\* record: the slots, mQueue, the counts, the session flags, the current frame
\* and the reader are as before, and no condition is signalled.
C22_ReturnAfterStopIsNoOp ==
    [][(mStopped /\ ret'.op = "signalBufferReturned"
                 /\ SignalBufferReturned(ret'.arg))
          => /\ UNCHANGED stateVars
             /\ UNCHANGED <<pending, numQueued, delivered>>
             /\ signalled' = {}
             /\ ret'.status = OK]_vars
\* A record was returned after stop() had freed every buffer: it matches no
\* slot, and the call came back without the fatal check.
C22_Witness ==
    /\ mStopped /\ ~aborted
    /\ ret.op = "signalBufferReturned" /\ ret.status = OK
    /\ \A i \in SlotIds : mSlots[i].mGraphicBuffer # ret.arg
    /\ mNumFramesEncoded > 0

\* A return of a record, on a session that has not stopped, whose handle is
\* the handle of some slot's buffer.
ReturnMatches ==
    /\ ~mStopped
    /\ ret'.op = "signalBufferReturned"
    /\ SignalBufferReturned(ret'.arg)
    /\ MatchingSlot(mSlots, ret'.arg) # -1

\* C23 (as claimed): such a return moves the matching slot to FREE, drops the
\* buffer reference the slot holds, and signals the dequeue condition and the
\* frame-completion condition.
C23_ReturnFreesAndDropsBuffer ==
    [][ReturnMatches =>
          LET id == MatchingSlot(mSlots, ret'.arg)
          IN /\ mSlots'[id].mBufferState = FREE
             /\ mSlots'[id].mGraphicBuffer = NoBuffer
             /\ {"dequeue", "complete"} \subseteq signalled']_vars
\* C23 (amended): such a return moves the matching slot to FREE and signals the
\* dequeue condition and the frame-completion condition; the reference it
\* drops is the one read() took on the record, and the slot keeps its buffer
\* (every slot's mGraphicBuffer is as before), no other slot changes.
C23_ReturnFreesAndKeepsBuffer ==
    [][ReturnMatches =>
          LET id == MatchingSlot(mSlots, ret'.arg)
          IN /\ mSlots' = [mSlots EXCEPT ![id].mBufferState = FREE]
             /\ mSlots'[id].mGraphicBuffer = ret'.arg
             /\ outstanding'[ret'.arg] = outstanding[ret'.arg] - 1
             /\ signalled' = {"dequeue", "complete"}
             /\ ret'.status = OK /\ ret'.out = id]_vars
\* A delivered record came back on a running session: its slot is FREE and
\* still holds the buffer the record names.
C23_Witness ==
    /\ ~mStopped
    /\ ret.op = "signalBufferReturned" /\ ret.status = OK /\ ret.out \in SlotIds
    /\ mSlots[ret.out].mBufferState = FREE
    /\ mSlots[ret.out].mGraphicBuffer = ret.arg
    /\ signalled = {"dequeue", "complete"}

\* C24: setFrameRate(fps) returns OK and makes fps the frame rate, as
\* getFrameRate reports it, exactly when 0 <= fps <= 60; for any other fps it
\* returns BAD_VALUE and the frame rate is as before.
C24_FrameRateRange ==
    [][(ret'.op = "setFrameRate" /\ SetFrameRate(ret'.arg)) =>
          IF 0 <= ret'.arg /\ ret'.arg <= 60
          THEN ret'.status = OK /\ getFrameRate' = ret'.arg
          ELSE /\ ret'.status \in InvalidArgument
               /\ getFrameRate' = getFrameRate
               /\ UNCHANGED stateVars]_vars
\* The rate was set to the upper end of the range, and 61 was then refused.
C24_Witness ==
    /\ ret.op = "setFrameRate" /\ ret.arg = 61 /\ ret.status = BAD_VALUE
    /\ getFrameRate = 60

\* C25 (as claimed): on a stopped session connect, disconnect,
\* setSynchronousMode, setBufferCount, setBufferCountServer and requestBuffer
\* all return NO_INIT.
C25_StoppedRefusesEveryCall ==
    [][(mStopped /\ ret'.op \in {"connect", "disconnect", "setSynchronousMode",
                                 "setBufferCount", "setBufferCountServer",
                                 "requestBuffer"})
          => ret'.status \in NotInitialized]_vars

ErrorResults == {BAD_VALUE, EINVAL, INVALID_OPERATION, NO_INIT}

\* C26 (as claimed): a call that returns an error leaves the slots, mQueue, the
\* three buffer counts, mConnectedApi, mStopped and mCurrentSlot as they were.
C26_ErrorsLeaveStateUnchanged ==
    [][ret'.status \in ErrorResults
          => UNCHANGED <<mSlots, mQueue, mBufferCount, mServerBufferCount,
                         mClientBufferCount, mConnectedApi, mStopped,
                         mCurrentSlot>>]_vars

\* C27 (as claimed): no step calls the frame-available listener while mMutex
\* is held.
C27_ListenerNeverUnderLock == "listener under mMutex" \notin signalled

\* C28: a read() blocked when stop() is called returns ERROR_END_OF_STREAM in
\* the end, and no read() returns ERROR_END_OF_STREAM unless mStopped is set.
C28_StopCancelsRead ==
    /\ ((readPc # "idle" /\ ret.op = "stop")
           ~> (readPc = "idle" /\ ret.op = "read"
                               /\ ret.status = ERROR_END_OF_STREAM))
    /\ [][((ReadEnter \/ ReadResume) /\ readPc' = "idle"
                                     /\ ret'.status = ERROR_END_OF_STREAM)
             => mStopped]_vars
\* stop() has just been called on a running session with the reader blocked:
\* the reader is woken and has not run yet.
C28_Witness ==
    /\ readPc = "woken" /\ ret.op = "stop" /\ mStopped
    /\ "frame" \in signalled
    /\ numQueued > 0

\* C29: read() tests its loop condition on entry and after every wake-up: it
\* goes (back) to waiting exactly when the session is not stopped and mQueue
\* is empty, and it returns a record only from a non-empty mQueue on a session
\* that is not stopped.
C29_ReadRechecksPredicate ==
    /\ [][(ReadEnter \/ ReadResume)
             => (readPc' = "waiting" <=> (~mStopped /\ mQueue = <<>>))]_vars
    /\ [][((ReadEnter \/ ReadResume) /\ mNumFramesEncoded' # mNumFramesEncoded)
             => (mQueue # <<>> /\ ~mStopped)]_vars
    /\ [][((ReadEnter \/ ReadResume) /\ readPc' = "idle" /\ ret'.status = OK)
             => (mQueue # <<>> /\ ~mStopped)]_vars
\* onBuffersReleased signalled the frame condition with nothing queued: the
\* reader, which has delivered a frame before, is awake with mQueue empty.
C29_Witness ==
    /\ readPc = "woken" /\ ret.op = "onBuffersReleased"
    /\ mQueue = <<>> /\ ~mStopped
    /\ mNumFramesEncoded > 0

\* C30 (as claimed): on a session that has not stopped, every record read()
\* handed out and the encoder has not returned names a buffer some slot still
\* holds, and the return of such a record never ends in the fatal check,
\* setBufferCount in between or not.
C30_DeliveredBufferStaysAlive ==
    /\ ~mStopped =>
          \A h \in Handles :
              outstanding[h] > 0 => \E i \in SlotIds : mSlots[i].mGraphicBuffer = h
    /\ ~(ret.op = "signalBufferReturned" /\ ret.status = FATAL)

\* Slot i holds a frame read() delivered whose record has not come back: it is
\* QUEUED, out of mQueue, and its latest frame was handed out.
HeldByEncoder(i) ==
    /\ i \in delivered
    /\ mSlots[i].mBufferState = QUEUED
    /\ i \notin Range(mQueue)

\* C31 (as claimed): a slot whose frame read() delivered is moved to FREE only
\* by the return of the record that names its buffer, or by a step that leaves
\* the session stopped.
C31_DeliveredSlotNotFreed ==
    [][\A i \in SlotIds :
          (HeldByEncoder(i) /\ mSlots'[i].mBufferState = FREE)
             => \/ mStopped'
                \/ /\ ret'.op = "signalBufferReturned"
                   /\ ret'.arg = mSlots[i].mGraphicBuffer]_vars

\* C32 (as claimed): a step of setBufferCount or setBufferCountServer that
\* changes mBufferCount starts from a state with no slot DEQUEUED.
C32_NoResizeWhileDequeued ==
    [][(ret'.op \in {"setBufferCount", "setBufferCountServer"}
          /\ mBufferCount' # mBufferCount) => DequeuedSlots = {}]_vars
\* C32 (amended): a step of setBufferCount that changes mBufferCount starts
\* from a state with no slot DEQUEUED; setBufferCountServer changes
\* mBufferCount only upwards and only with no client count in force, and it
\* does so whether or not a slot is DEQUEUED.
C32_OnlyGrowthWhileDequeued ==
    /\ [][(ret'.op = "setBufferCount" /\ SetBufferCount(ret'.arg)
             /\ mBufferCount' # mBufferCount) => DequeuedSlots = {}]_vars
    /\ [][(ret'.op = "setBufferCountServer" /\ SetBufferCountServer(ret'.arg)
             /\ mBufferCount' # mBufferCount)
             => /\ mBufferCount' > mBufferCount
                /\ mBufferCount' = ret'.arg
                /\ mClientBufferCount = 0
                /\ UNCHANGED mSlots]_vars
\* The server raised the count from 2 to at least 3 while the producer held a
\* slot.
C32_Witness ==
    /\ ret.op = "setBufferCountServer" /\ ret.status = OK
    /\ mBufferCount = ret.arg /\ mBufferCount >= 3
    /\ DequeuedSlots # {}
    /\ signalled = {"dequeue"}

\* C33 (as claimed): setBufferCount(0) with no slot DEQUEUED sets
\* mClientBufferCount to 0, passes max(mServerBufferCount, 2) on to
\* setBufferCountServerLocked, returns OK, and leaves mQueue, the slots and
\* mCurrentSlot as they were.
C33_ZeroResetsToServerCount ==
    [][(ret'.op = "setBufferCount" /\ ret'.arg = 0 /\ SetBufferCount(0)
          /\ DequeuedSlots = {})
          => LET k == IF mServerBufferCount >= 2 THEN mServerBufferCount ELSE 2
                 r == setBufferCountServerLocked(k, mBufferCount,
                                                 mServerBufferCount, 0)
             IN /\ mClientBufferCount' = 0
                /\ ret'.status = OK
                /\ mBufferCount' = r.count
                /\ mServerBufferCount' = r.server
                /\ UNCHANGED <<mSlots, mQueue, mCurrentSlot>>]_vars

\* A step of requestBuffer.
RequestBufferStep == ret'.op = "requestBuffer" /\ RequestBuffer(ret'.arg)

\* C34 (as claimed): requestBuffer(slot) returns OK for every slot of the
\* table, 0 <= slot < NUM_BUFFER_SLOTS, sets mRequestBufferCalled of that slot
\* and returns its buffer, with every slot's state and mQueue as before; for
\* any other index it returns BAD_VALUE and sets no flag.
C34_RequestWithinTable ==
    [][RequestBufferStep =>
          IF ret'.arg \in SlotIds
          THEN /\ ret'.status = OK
               /\ mSlots' = [mSlots EXCEPT ![ret'.arg].mRequestBufferCalled = TRUE]
               /\ ret'.out = mSlots[ret'.arg].mGraphicBuffer
               /\ UNCHANGED mQueue
          ELSE ret'.status \in InvalidArgument /\ UNCHANGED slotVars]_vars
\* C34 (amended): requestBuffer(slot) returns OK exactly for
\* 0 <= slot < mBufferCount, the count in force, and then sets
\* mRequestBufferCalled of that slot and returns its buffer, with every slot's
\* state and mQueue as before; for any other index, a slot of the table at or
\* above mBufferCount included, it returns BAD_VALUE and changes nothing.
C34_RequestWithinCount ==
    [][RequestBufferStep =>
          IF 0 <= ret'.arg /\ ret'.arg < mBufferCount
          THEN /\ ret'.status = OK
               /\ mSlots' = [mSlots EXCEPT ![ret'.arg].mRequestBufferCalled = TRUE]
               /\ ret'.out = mSlots[ret'.arg].mGraphicBuffer
               /\ UNCHANGED <<mQueue, countVars, sessVars, curVars>>
          ELSE /\ ret'.status = BAD_VALUE
               /\ UNCHANGED stateVars]_vars
\* With a count of 2 in force, the last slot of the table was refused after
\* slot 0 had been granted.
C34_Witness ==
    /\ ret.op = "requestBuffer" /\ ret.arg = NUM_BUFFER_SLOTS - 1
    /\ ret.status = BAD_VALUE
    /\ 0 < mBufferCount /\ mBufferCount <= ret.arg
    /\ mSlots[0].mRequestBufferCalled

\* C35: stop() returns OK in every state, a stopped or disconnected session
\* included, and leaves mStopped set, mQueue empty and every slot FREE with no
\* buffer, and mConnectedApi as it was; disconnect(api) on a session that has
\* stopped, by stop() or by an earlier disconnect, returns NO_INIT and changes
\* nothing.
C35_StopRepeatsDisconnectDoesNot ==
    /\ [][(ret'.op = "stop" /\ Stop)
             => /\ ret'.status = OK
                /\ mStopped'
                /\ mQueue' = <<>>
                /\ \A i \in SlotIds : /\ mSlots'[i].mBufferState = FREE
                                      /\ mSlots'[i].mGraphicBuffer = NoBuffer
                /\ mConnectedApi' = mConnectedApi]_vars
    /\ [][(mStopped /\ ret'.op = "disconnect" /\ Disconnect(ret'.arg))
             => /\ ret'.status = NO_INIT
                /\ UNCHANGED stateVars
                /\ signalled' = {}]_vars
\* The producer that stop() left recorded as connected was refused its
\* disconnect, on a session that had been running.
C35_Witness ==
    /\ ret.op = "disconnect" /\ ret.status = NO_INIT
    /\ ret.arg \in ValidApis /\ mConnectedApi = ret.arg
    /\ mStopped /\ numQueued > 0
    /\ mQueue = <<>> /\ AllFree

\* C36: from counts that are in order, every sequence of setBufferCount and
\* setBufferCountServer calls, whatever their arguments, keeps mBufferCount in
\* 2 .. NUM_BUFFER_SLOTS and mClientBufferCount either 0 or in
\* 3 .. NUM_BUFFER_SLOTS.
C36_CountsStayInRange ==
    /\ 2 <= mBufferCount /\ mBufferCount <= NUM_BUFFER_SLOTS
    /\ \/ mClientBufferCount = 0
       \/ 3 <= mClientBufferCount /\ mClientBufferCount <= NUM_BUFFER_SLOTS
\* After a refused setBufferCountServer(1) and more, arguments below 2 and
\* above the table have been refused and the counts are in range, with a
\* client count in force.
C36_Witness ==
    /\ ret.status = BAD_VALUE /\ ret.arg \notin ValidCounts
    /\ mClientBufferCount = NUM_BUFFER_SLOTS
    /\ mBufferCount = NUM_BUFFER_SLOTS
    /\ mServerBufferCount = 2

\* C37 (as claimed): whenever mClientBufferCount is not 0, mBufferCount is
\* equal to it, and no setBufferCountServer step changes mBufferCount while it
\* is not 0.
C37_ClientCountInForce ==
    /\ [](mClientBufferCount # 0 => mBufferCount = mClientBufferCount)
    /\ [][(mClientBufferCount # 0 /\ ret'.op = "setBufferCountServer"
             /\ SetBufferCountServer(ret'.arg))
             => mBufferCount' = mBufferCount]_vars

\* C38 (as claimed): a step of signalBufferReturned changes the state of at
\* most one slot, and a slot it moves to FREE held a frame that read()
\* delivered and whose record had not come back: it was QUEUED and out of
\* mQueue, never DEQUEUED or waiting in mQueue.
C38_ReturnFreesOnlyDelivered ==
    [][(ret'.op = "signalBufferReturned" /\ SignalBufferReturned(ret'.arg))
          => /\ Cardinality({i \in SlotIds : mSlots'[i] # mSlots[i]}) <= 1
             /\ \A i \in SlotIds :
                   (mSlots[i].mBufferState # FREE /\ mSlots'[i].mBufferState = FREE)
                      => HeldByEncoder(i)]_vars

\* C39: a read() that returns ERROR_END_OF_STREAM hands out no record and
\* leaves mQueue, mCurrentSlot, mCurrentBuf, mCurrentTimestamp,
\* mNumFramesEncoded and every slot as they were; so does every step in which
\* read() goes to wait.
C39_EndOfStreamHasNoEffect ==
    /\ [][((ReadEnter \/ ReadResume) /\ readPc' = "idle"
             /\ ret'.status = ERROR_END_OF_STREAM)
             => /\ UNCHANGED <<mQueue, mCurrentSlot, mCurrentBuf,
                               mCurrentTimestamp, mNumFramesEncoded, mSlots>>
                /\ UNCHANGED <<countVars, sessVars, outstanding>>
                /\ ret'.out = NoBuffer]_vars
    /\ [][((ReadEnter \/ ReadResume) /\ readPc' = "waiting")
             => UNCHANGED <<slotVars, curVars, countVars, sessVars, ret>>]_vars
\* A reader that had delivered a frame and was blocked got end of stream
\* after stop(): the current frame is still the one delivered before.
C39_Witness ==
    /\ ret.op = "read" /\ ret.status = ERROR_END_OF_STREAM /\ ret.out = NoBuffer
    /\ mNumFramesEncoded > 0 /\ mCurrentBuf # NoBuffer
    /\ mCurrentSlot # INVALID_BUFFER_SLOT
    /\ AllFree /\ mQueue = <<>>
====
